---- MODULE Spec2Model ----
(***************************************************************************)
(* A model of the Mathematica MCP server (wjsoj/mma-mcp): the bearer-token *)
(* gate, the health state machine, the tools/call dispatcher and the       *)
(* subprocess/timer race of executeWolframScript.                          *)
(*                                                                         *)
(* Strings are sequences of one-character strings, so that startsWith,     *)
(* slice, trim, includes and charCodeAt are computed as the code computes  *)
(* them.  Names that the code only ever compares as a whole (error class   *)
(* names, tool names, format names, status words) are TLA+ strings.        *)
(***************************************************************************)
EXTENDS Integers, Sequences, FiniteSets, TLC

(***************************************************************************)
(* Bounds of the model.                                                    *)
(***************************************************************************)
\* longest remainder of an Authorization header after its scheme prefix
MaxRestLen == 2
\* longest expected key handed to validateBearerToken
MaxKeyLen == 2
\* DEFAULT_TIMEOUT and MAX_TIMEOUT of the environment range over 1..MaxCfgTimeout
MaxCfgTimeout == 2
\* the minimum length EnvSchema asks of MCP_API_KEY (32 in the code), scaled down
MinApiKeyLength == 2
\* the raw outputs given to the formatter have up to MaxOutputLen characters
MaxOutputLen == 5
\* the limits given to truncateOutput range over 0..MaxLimit
MaxLimit == 3
\* the code strings given to the command construction have 1..MaxCodeLen characters
MaxCodeLen == 3

(***************************************************************************)
(* Program constants.                                                      *)
(***************************************************************************)
\* z.number().int().min(1).max(86400) of the timeout fields
SchemaMaxTimeout == 86400

VARIABLES
    auth,         \* one application of validateBearerToken: inputs and result
    env,          \* process.env as the process was started with
    config,       \* the EnvConfig loadEnvConfig returned ([loaded |-> FALSE] before)
    pc,           \* where startServer stands
    serverState,  \* the module-level serverState of server/index.ts
    mcpServer,    \* the module-level mcpServer reference
    httpServer,   \* the module-level httpServer reference
    call,         \* the tools/call request being served, with its subprocess and timer
    httpResp,     \* the last HTTP response sent
    fmt,          \* one application of a function of the output formatter
    logger,       \* the global logger: level, useStderr, and where its lines went
    events,       \* what has happened during startup (see StartupEvents)
    process       \* the process: a shutdown under way, the exit code

vars ==
    <<auth, env, config, pc, serverState, mcpServer, httpServer, call, httpResp,
      fmt, logger, events, process>>
mainVars ==
    <<env, config, pc, serverState, mcpServer, httpServer, call, httpResp,
      fmt, logger, events, process>>

(***************************************************************************)
(* Strings.                                                                *)
(***************************************************************************)
Alphabet == {"k", "K", " "}

RECURSIVE StringsUpTo(_)
StringsUpTo(n) ==
    IF n = 0 THEN {<<>>}
    ELSE LET shorter == StringsUpTo(n - 1)
         IN  shorter \cup {Append(s, c) : s \in shorter, c \in Alphabet}

Repeat(c, n) == [i \in 1..n |-> c]

\* String.prototype.startsWith
StartsWith(s, p) == Len(s) >= Len(p) /\ SubSeq(s, 1, Len(p)) = p

\* String.prototype.slice(n): everything from (0-based) index n on
Slice(s, n) == SubSeq(s, n + 1, Len(s))

\* String.prototype.includes
Includes(s, p) ==
    \E i \in 0..(Len(s) - Len(p)) : SubSeq(s, i + 1, i + Len(p)) = p

IsWhitespace(c) == c \in {" ", "\t", "\n", "\r"}

RECURSIVE TrimStart(_)
TrimStart(s) ==
    IF Len(s) > 0 /\ IsWhitespace(s[1]) THEN TrimStart(Tail(s)) ELSE s

RECURSIVE TrimEnd(_)
TrimEnd(s) ==
    IF Len(s) > 0 /\ IsWhitespace(s[Len(s)])
    THEN TrimEnd(SubSeq(s, 1, Len(s) - 1))
    ELSE s

\* String.prototype.trim
Trim(s) == TrimEnd(TrimStart(s))

\* String.prototype.charCodeAt, on the characters the model uses
CharCode(c) ==
    CASE c = " " -> 32
      [] c = "K" -> 75
      [] c = "k" -> 107
      [] c = "x" -> 120
      [] OTHER   -> 63

\* the ^ operator on non-negative integers
RECURSIVE BitXor(_, _)
BitXor(x, y) ==
    IF x = 0 THEN y
    ELSE IF y = 0 THEN x
    ELSE (((x % 2) + (y % 2)) % 2) + 2 * BitXor(x \div 2, y \div 2)

\* the | operator on non-negative integers
RECURSIVE BitOr(_, _)
BitOr(x, y) ==
    IF x = 0 THEN y
    ELSE IF y = 0 THEN x
    ELSE (IF (x % 2) = 1 \/ (y % 2) = 1 THEN 1 ELSE 0) + 2 * BitOr(x \div 2, y \div 2)

\* an optional string: undefined / null, or a value
Absent == [present |-> FALSE, value |-> <<>>]
Present(s) == [present |-> TRUE, value |-> s]

(***************************************************************************)
(* middleware/auth.ts                                                      *)
(***************************************************************************)
BearerPrefix == <<"B", "e", "a", "r", "e", "r", " ">>

\* for (let i = 0; i < n; i++) result |= p.charCodeAt(i) ^ q.charCodeAt(i)
RECURSIVE CompareLoop(_, _, _, _, _)
CompareLoop(p, q, n, i, st) ==
    IF i > n THEN st
    ELSE CompareLoop(p, q, n, i + 1,
            [result |-> BitOr(st.result, BitXor(CharCode(p[i]), CharCode(q[i]))),
             iterations |-> st.iterations + 1])

TimingSafeEqual_EarlyReturn(a, b) ==
    IF Len(a) # Len(b)
    THEN [equal |-> FALSE, iterations |-> 0]
    ELSE LET st == CompareLoop(a, b, Len(a), 1, [result |-> 0, iterations |-> 0])
         IN  [equal |-> (st.result = 0), iterations |-> st.iterations]

TimingSafeEqual(a, b) ==
    IF Len(a) # Len(b)
    THEN LET dummy == Repeat("x", Len(b))
             st == CompareLoop(dummy, b, Len(b), 1, [result |-> 1, iterations |-> 0])
         IN  [equal |-> FALSE, iterations |-> st.iterations]
    ELSE LET st == CompareLoop(a, b, Len(a), 1, [result |-> 0, iterations |-> 0])
         IN  [equal |-> (st.result = 0), iterations |-> st.iterations]

\* authHeader is request.headers.get('Authorization'): Absent when there is none
ExtractBearerToken(authHeader) ==
    IF ~authHeader.present \/ Len(authHeader.value) = 0 THEN Absent
    ELSE IF ~StartsWith(authHeader.value, BearerPrefix) THEN Absent
    ELSE LET token == Trim(Slice(authHeader.value, Len(BearerPrefix)))
         IN  IF Len(token) > 0 THEN Present(token) ELSE Absent

ValidateBearerToken(authHeader, expectedKey) ==
    IF ~expectedKey.present \/ Len(expectedKey.value) = 0 THEN TRUE
    ELSE LET token == ExtractBearerToken(authHeader)
         IN  IF ~token.present THEN FALSE
             ELSE TimingSafeEqual(token.value, expectedKey.value).equal

(***************************************************************************)
(* The inputs validateBearerToken is applied to.                           *)
(***************************************************************************)
SchemePrefixes ==
    { BearerPrefix,
      <<"b", "e", "a", "r", "e", "r", " ">>,
      <<"B", "e", "a", "r", "e", "r">>,
      <<>> }

\* Headers.get hands out a header value without leading or trailing whitespace
AuthHeaders ==
    {Absent}
    \cup {Present(Trim(p \o r)) : p \in SchemePrefixes, r \in StringsUpTo(MaxRestLen)}

AuthKeys == {Absent} \cup {Present(k) : k \in StringsUpTo(MaxKeyLen)}

NoAuth == [header |-> Absent, key |-> Absent, applied |-> FALSE, ok |-> FALSE,
           compared |-> FALSE, iterations |-> 0]

(***************************************************************************)
(* config/schema.ts and config/env.ts                                      *)
(***************************************************************************)
\* a key of exactly the minimum length, and one that is one character short
SampleKey == Repeat("k", MinApiKeyLength)
ShortKey == Repeat("k", MinApiKeyLength - 1)

\* process.env: DEFAULT_TIMEOUT 0 is the value EnvSchema rejects.  Every
\* setting is tried at the default log level, and the stdio transport at each
\* of the other levels
Envs ==
    [MCP_TRANSPORT : {"http", "stdio"},
     MCP_API_KEY : {Absent, Present(SampleKey), Present(ShortKey)},
     DEFAULT_TIMEOUT : 0..MaxCfgTimeout,
     MAX_TIMEOUT : 1..MaxCfgTimeout,
     LOG_LEVEL : {"info"}]
    \cup [MCP_TRANSPORT : {"stdio"},
          MCP_API_KEY : {Absent},
          DEFAULT_TIMEOUT : {1},
          MAX_TIMEOUT : {1},
          LOG_LEVEL : {"debug", "warn", "error"}]

\* EnvSchema.parse succeeds
EnvSchemaAccepts(e) ==
    /\ e.MCP_TRANSPORT \in {"http", "stdio"}
    /\ e.MCP_API_KEY.present => Len(e.MCP_API_KEY.value) >= MinApiKeyLength
    /\ e.DEFAULT_TIMEOUT >= 1 /\ e.DEFAULT_TIMEOUT <= SchemaMaxTimeout
    /\ e.MAX_TIMEOUT >= 1 /\ e.MAX_TIMEOUT <= SchemaMaxTimeout
    /\ e.LOG_LEVEL \in {"debug", "info", "warn", "error"}

NoConfig ==
    [loaded |-> FALSE, MCP_TRANSPORT |-> "stdio", MCP_API_KEY |-> Absent,
     DEFAULT_TIMEOUT |-> 1, MAX_TIMEOUT |-> 1, LOG_LEVEL |-> "info"]

\* loadEnvConfig on an environment the schema accepts
LoadEnvConfig(e) ==
    [loaded |-> TRUE,
     MCP_TRANSPORT |-> e.MCP_TRANSPORT,
     MCP_API_KEY |-> e.MCP_API_KEY,
     DEFAULT_TIMEOUT |-> IF e.DEFAULT_TIMEOUT > e.MAX_TIMEOUT
                         THEN e.MAX_TIMEOUT ELSE e.DEFAULT_TIMEOUT,
     MAX_TIMEOUT |-> e.MAX_TIMEOUT,
     LOG_LEVEL |-> e.LOG_LEVEL]

(***************************************************************************)
(* utils/logger.ts                                                         *)
(***************************************************************************)
LogLevels == {"debug", "info", "warn", "error"}

\* Logger.levels
LevelRank(level) ==
    CASE level = "debug" -> 0
      [] level = "info" -> 1
      [] level = "warn" -> 2
      [] level = "error" -> 3

\* new Logger(level); written holds the streams its lines have gone to
NewLogger(level) == [level |-> level, useStderr |-> FALSE, written |-> {}]

ShouldLog(lg, level) == LevelRank(level) >= LevelRank(lg.level)

\* the stream of the console method Logger.log picks: console.debug and
\* console.info write to stdout, console.warn and console.error to stderr
ConsoleStream(lg, level) ==
    IF lg.useStderr THEN "stderr"
    ELSE IF level \in {"debug", "info"} THEN "stdout" ELSE "stderr"

\* Logger.log, once for each of levels
LogAll(lg, levels) ==
    [lg EXCEPT !.written =
        @ \cup {ConsoleStream(lg, l) : l \in {x \in levels : ShouldLog(lg, x)}}]

SetLevel(lg, level) == [lg EXCEPT !.level = level]

RedirectToStderr(lg) == LogAll([lg EXCEPT !.useStderr = TRUE], {"info"})

(***************************************************************************)
(* server/index.ts: the health state                                       *)
(***************************************************************************)
\* the module-level initializer of serverState; stopServer assigns the same
InitialServerState ==
    [wolframScriptAvailable |-> FALSE,
     wolframKernelInitialized |-> FALSE,
     mcpServerConnected |-> FALSE,
     transportConnected |-> FALSE,
     initializationError |-> "null",
     startedAt |-> "null"]

\* the reset at the top of startServer
ResetServerState == [InitialServerState EXCEPT !.startedAt = "date"]

\* getServerHealthStatus reporting 'initializing' whenever some check is false
GetServerHealthStatus_AnyFalse(s) ==
    LET allHealthy ==
            /\ s.wolframScriptAvailable
            /\ s.wolframKernelInitialized
            /\ s.mcpServerConnected
            /\ s.transportConnected
            /\ s.initializationError = "null"
        allInitialized ==
            /\ s.wolframScriptAvailable
            /\ s.wolframKernelInitialized
            /\ s.mcpServerConnected
            /\ s.transportConnected
    IN  [status |-> IF allHealthy THEN "ok"
                    ELSE IF ~allInitialized /\ s.initializationError = "null"
                         THEN "initializing"
                         ELSE "error",
         checks |-> [wolframScriptAvailable |-> s.wolframScriptAvailable,
                     wolframKernelInitialized |-> s.wolframKernelInitialized,
                     mcpServerConnected |-> s.mcpServerConnected,
                     transportConnected |-> s.transportConnected],
         error |-> s.initializationError,
         startedAt |-> s.startedAt]

GetServerHealthStatus(s) ==
    LET allHealthy ==
            /\ s.wolframScriptAvailable
            /\ s.wolframKernelInitialized
            /\ s.mcpServerConnected
            /\ s.transportConnected
            /\ s.initializationError = "null"
        anyInitialized ==
            \/ s.wolframScriptAvailable
            \/ s.wolframKernelInitialized
            \/ s.mcpServerConnected
            \/ s.transportConnected
    IN  [status |-> IF allHealthy THEN "ok"
                    ELSE IF ~anyInitialized /\ s.initializationError = "null"
                         THEN "initializing"
                         ELSE "error",
         checks |-> [wolframScriptAvailable |-> s.wolframScriptAvailable,
                     wolframKernelInitialized |-> s.wolframKernelInitialized,
                     mcpServerConnected |-> s.mcpServerConnected,
                     transportConnected |-> s.transportConnected],
         error |-> s.initializationError,
         startedAt |-> s.startedAt]

(***************************************************************************)
(* server/transports/http.ts: GET /health                                  *)
(***************************************************************************)
\* if (!check) failedChecks.push(label)
PushIfFalse(list, check, label) == IF ~check THEN Append(list, label) ELSE list

\* the failedChecks of /health without the entry of the transport check
HealthFailedChecks_NoTransport(healthStatus) ==
    IF healthStatus.status # "ok"
    THEN LET f1 == PushIfFalse(<<>>, healthStatus.checks.wolframScriptAvailable,
                               "WolframScript not available")
             f2 == PushIfFalse(f1, healthStatus.checks.wolframKernelInitialized,
                               "Wolfram Kernel not initialized")
             f3 == PushIfFalse(f2, healthStatus.checks.mcpServerConnected,
                               "MCP server not connected")
         IN  IF Len(f3) > 0 THEN Present(f3) ELSE Absent
    ELSE Absent

HealthFailedChecks(healthStatus) ==
    IF healthStatus.status # "ok"
    THEN LET f1 == PushIfFalse(<<>>, healthStatus.checks.wolframScriptAvailable,
                               "WolframScript not available")
             f2 == PushIfFalse(f1, healthStatus.checks.wolframKernelInitialized,
                               "Wolfram Kernel not initialized")
             f3 == PushIfFalse(f2, healthStatus.checks.mcpServerConnected,
                               "MCP server not connected")
             f4 == PushIfFalse(f3, healthStatus.checks.transportConnected,
                               "Transport not connected")
         IN  IF Len(f4) > 0 THEN Present(f4) ELSE Absent
    ELSE Absent

HealthStatusCode(healthStatus) ==
    IF healthStatus.status = "ok" THEN 200
    ELSE IF healthStatus.status = "initializing" THEN 503
    ELSE 503

\* the Response of the /health branch of fetch
HealthResponse(healthStatus) ==
    [status |-> HealthStatusCode(healthStatus),
     wwwAuthenticate |-> Absent,
     body |-> [status |-> healthStatus.status,
               startedAt |-> healthStatus.startedAt,
               checks |-> [wolframScript |-> healthStatus.checks.wolframScriptAvailable,
                           wolframKernel |-> healthStatus.checks.wolframKernelInitialized,
                           mcpServer |-> healthStatus.checks.mcpServerConnected,
                           transport |-> healthStatus.checks.transportConnected],
               error |-> IF healthStatus.error # "null" /\ healthStatus.error # ""
                         THEN healthStatus.error ELSE "absent",
               failedChecks |-> HealthFailedChecks(healthStatus)]]


(***************************************************************************)
(* utils/errors.ts                                                         *)
(***************************************************************************)
\* an Error object: its class chain, name, message and own data properties
NoError ==
    [instanceOfError |-> FALSE, class |-> "none", name |-> "none",
     message |-> <<>>, timeout |-> 0, originalError |-> FALSE]

MathematicaTimeoutError(timeout) ==
    [instanceOfError |-> TRUE, class |-> "MathematicaError",
     name |-> "MathematicaTimeoutError",
     message |-> <<"E", "x", "e", "c", "u", "t", "i", "o", "n", " ", "e", "x", "c", "e", "e", "d", "e", "d", " ", "t", "i", "m", "e", "o", "u", "t">>,
     timeout |-> timeout, originalError |-> FALSE]

MathematicaExecutionError(message) ==
    [instanceOfError |-> TRUE, class |-> "MathematicaError",
     name |-> "MathematicaExecutionError",
     message |-> <<"E", "x", "e", "c", "u", "t", "i", "o", "n", " ", "f", "a", "i", "l", "e", "d", ":", " ">> \o message,
     timeout |-> 0, originalError |-> TRUE]

WolframScriptNotFoundError ==
    [instanceOfError |-> TRUE, class |-> "MathematicaError",
     name |-> "WolframScriptNotFoundError",
     message |-> <<"W", "o", "l", "f", "r", "a", "m", "S", "c", "r", "i", "p", "t", " ", "n", "o", "t", " ", "f", "o", "u", "n", "d", " ", "a", "t", " ", "p", "a", "t", "h">>,
     timeout |-> 0, originalError |-> FALSE]

\* what ExecuteMathematicaInputSchema.parse throws
ZodError ==
    [instanceOfError |-> TRUE, class |-> "Error", name |-> "ZodError",
     message |-> <<"I", "n", "v", "a", "l", "i", "d", " ", "i", "n", "p", "u", "t">>, timeout |-> 0, originalError |-> FALSE]

\* what reading a property of null throws
TypeError ==
    [instanceOfError |-> TRUE, class |-> "Error", name |-> "TypeError",
     message |-> <<"n", "u", "l", "l", " ", "i", "s", " ", "n", "o", "t", " ", "a", "n", " ", "o", "b", "j", "e", "c", "t">>, timeout |-> 0, originalError |-> FALSE]

\* new Date().toISOString()
IsoTimestamp == <<"2", "0", "2", "6", "-", "0", "1", "-", "0", "1", "T", "0", "0", ":", "0", "0", ":", "0", "0", ".", "0", "0", "0", "Z">>

\* the own properties other than name, message and stack
ErrorDetails(error) ==
    IF error.class \in {"MathematicaError", "ConfigurationError"}
    THEN [defined |-> TRUE,
          props |-> (IF error.name = "MathematicaTimeoutError" THEN {"timeout"} ELSE {})
                    \cup (IF error.originalError THEN {"originalError"} ELSE {}),
          timeout |-> error.timeout]
    ELSE [defined |-> FALSE, props |-> {}, timeout |-> 0]

FormatErrorForMcp(error) ==
    IF error.instanceOfError
    THEN [error |-> error.name,
          message |-> error.message,
          timestamp |-> IsoTimestamp,
          details |-> ErrorDetails(error)]
    ELSE [error |-> "UnknownError",
          message |-> error.message,
          timestamp |-> IsoTimestamp]

(***************************************************************************)
(* mathematica/executor.ts: executeWolframScript                           *)
(***************************************************************************)
FormatText == <<"t", "e", "x", "t">>
FormatLatex == <<"l", "a", "t", "e", "x">>
FormatMathematica == <<"m", "a", "t", "h", "e", "m", "a", "t", "i", "c", "a">>
OutputFormats == {FormatText, FormatLatex, FormatMathematica}

\* what the awaited race can reject with: the fields the catch block reads
Reason(name, message, code, stderr) ==
    [isNull |-> FALSE, name |-> name, message |-> message, code |-> code,
     stderr |-> stderr, stdout |-> <<>>]

\* new Error('timeout'), the rejection of timeoutPromise
TimerReason == Reason("Error", <<"t", "i", "m", "e", "o", "u", "t">>, "undefined", <<>>)

\* the rejections of the subprocess promise: a non-zero exit, a failure to
\* spawn reported with code ENOENT or with a "not found" message, an error
\* whose message says "timed out", an error named TimeoutError, and null
NonZeroExit == Reason("ShellError", <<"F", "a", "i", "l", "e", "d", " ", "w", "i", "t", "h", " ", "e", "x", "i", "t", " ", "c", "o", "d", "e", " ", "1">>, "undefined", <<"S", "y", "n", "t", "a", "x", ":", ":", "s", "n", "t", "x", "i">>)
SpawnENOENT == Reason("Error", <<"s", "p", "a", "w", "n", " ", "E", "N", "O", "E", "N", "T">>, "ENOENT", <<>>)
CommandNotFound == Reason("Error", <<"c", "o", "m", "m", "a", "n", "d", " ", "n", "o", "t", " ", "f", "o", "u", "n", "d">>, "undefined", <<>>)
EngineTimedOut == Reason("Error", <<"o", "p", "e", "r", "a", "t", "i", "o", "n", " ", "t", "i", "m", "e", "d", " ", "o", "u", "t">>, "undefined", <<>>)
NamedTimeout == Reason("TimeoutError", <<"a", "b", "o", "r", "t", "e", "d">>, "undefined", <<>>)
SilentFailure == Reason("ShellError", <<>>, "undefined", <<>>)
NullReason ==
    [isNull |-> TRUE, name |-> "undefined", message |-> <<>>, code |-> "undefined",
     stderr |-> <<>>, stdout |-> <<>>]

\* Bun's shell on a command it cannot find: a non-zero exit, the diagnosis on
\* stderr
ShellCommandNotFound == Reason("ShellError", <<"F", "a", "i", "l", "e", "d", " ", "w", "i", "t", "h", " ", "e", "x", "i", "t", " ", "c", "o", "d", "e", " ", "1">>, "undefined", <<"c", "o", "m", "m", "a", "n", "d", " ", "n", "o", "t", " ", "f", "o", "u", "n", "d", ":", " ", "w", "o", "l", "f", "r", "a", "m", "s", "c", "r", "i", "p", "t">>)

\* the working directory given to proc.cwd does not exist: the system error of
\* the failed chdir, or a non-zero exit with the diagnosis on stderr
CwdENOENT == Reason("Error", <<"E", "N", "O", "E", "N", "T", ":", " ", "n", "o", " ", "s", "u", "c", "h", " ", "f", "i", "l", "e", " ", "o", "r", " ", "d", "i", "r", "e", "c", "t", "o", "r", "y">>, "ENOENT", <<>>)
CwdShellError == Reason("ShellError", <<"F", "a", "i", "l", "e", "d", " ", "w", "i", "t", "h", " ", "e", "x", "i", "t", " ", "c", "o", "d", "e", " ", "1">>, "undefined", <<"N", "o", " ", "s", "u", "c", "h", " ", "f", "i", "l", "e", " ", "o", "r", " ", "d", "i", "r", "e", "c", "t", "o", "r", "y">>)

\* no rejection
NoReason == Reason("none", <<>>, "undefined", <<>>)

\* what happened to the subprocess, for each rejection
SpawnFailures == {SpawnENOENT, CommandNotFound, ShellCommandNotFound}
CwdFailures == {CwdENOENT, CwdShellError}
ComputationFailures == {NonZeroExit, SilentFailure}

ProcRejections ==
    {NonZeroExit, SpawnENOENT, CommandNotFound, ShellCommandNotFound,
     EngineTimedOut, NamedTimeout, SilentFailure, NullReason}

\* a || b for strings: the empty string is falsy
OrElse(a, b) == IF Len(a) > 0 THEN a ELSE b

\* the catch block of executeWolframScript: the error it throws
ClassifyFailure(error, timeout) ==
    IF error.isNull THEN TypeError
    ELSE IF error.name = "TimeoutError" \/ Includes(error.message, <<"t", "i", "m", "e", "d", " ", "o", "u", "t">>)
    THEN MathematicaTimeoutError(timeout * 1000)
    ELSE IF error.code = "ENOENT" \/ Includes(error.message, <<"n", "o", "t", " ", "f", "o", "u", "n", "d">>)
    THEN WolframScriptNotFoundError
    ELSE MathematicaExecutionError(
            OrElse(Trim(error.stderr),
                   OrElse(Trim(error.stdout),
                          OrElse(error.message, <<"U", "n", "k", "n", "o", "w", "n", " ", "e", "r", "r", "o", "r">>))))

\* where a match of /\x1b\[[0-9;]*m/ that starts at position i of s ends, or 0
\* when none starts there; "ESC" stands for the character U+001B.  The class
\* is matched greedily and holds no "m", so giving characters back finds no
\* other match
AnsiMatchEnd(s, i) ==
    LET RECURSIVE SkipParams(_)
        SkipParams(j) ==
            IF j <= Len(s) /\ s[j] \in {"0", "1", "2", "3", "4", "5", "6", "7", "8", "9", ";"}
            THEN SkipParams(j + 1) ELSE j
        end == SkipParams(i + 2)
    IN  IF i + 1 <= Len(s) /\ s[i] = "ESC" /\ s[i + 1] = "["
           /\ end <= Len(s) /\ s[end] = "m"
        THEN end ELSE 0

\* replace(/\x1b\[[0-9;]*m/g, ''): one pass from left to right, the scan
\* resuming after each match
StripAnsi(s) ==
    LET RECURSIVE From(_)
        From(i) ==
            IF i > Len(s) THEN <<>>
            ELSE IF AnsiMatchEnd(s, i) > 0 THEN From(AnsiMatchEnd(s, i) + 1)
            ELSE <<s[i]>> \o From(i + 1)
    IN  From(1)

\* cleanOutput: trim first, then strip
CleanOutput(rawOutput) == StripAnsi(Trim(rawOutput))

\* formatOutput on the captured stdout: formatTextOutput, formatLatexOutput
\* and formatMathematicaOutput each return cleanOutput(rawOutput)
FormatOutput(rawOutput, format) ==
    [format |-> format, content |-> CleanOutput(rawOutput), executionTime |-> "ms"]

\* String(n) for an integer n >= 0
RECURSIVE ToDecimal(_)
ToDecimal(n) ==
    LET digit == <<"0", "1", "2", "3", "4", "5", "6", "7", "8", "9">>[(n % 10) + 1]
    IN  IF n < 10 THEN <<digit>> ELSE Append(ToDecimal(n \div 10), digit)

\* truncationMessage for an output of the given length
TruncationMessage(length) ==
    <<"\n", "\n", ".", ".", ".", " ", "[", "O", "u", "t", "p", "u", "t", " ", "t", "r", "u", "n", "c", "a", "t", "e", "d", ".", " ", "F", "u", "l", "l", " ", "l", "e", "n", "g", "t", "h", ":", " ">>
    \o ToDecimal(length) \o <<" ", "c", "h", "a", "r", "a", "c", "t", "e", "r", "s", "]">>

\* a truncateOutput that cuts and says nothing
TruncateOutput_NoNotice(output, maxLength) ==
    IF Len(output) <= maxLength THEN output ELSE SubSeq(output, 1, maxLength)

\* truncateOutput
TruncateOutput(output, maxLength) ==
    IF Len(output) <= maxLength THEN output
    ELSE SubSeq(output, 1, maxLength) \o TruncationMessage(Len(output))

\* the stdout of a subprocess that exits with code zero
SampleStdout == {<<"2">>, <<" ", "2", " ">>}

\* benignWarnings
BenignWarnings ==
    {<<"F", "a", "i", "l", "e", "d", " ", "t", "o", " ", "o", "p", "e", "n", " ", "c", "o", "n", "f", "i", "g", "u", "a", "r", "a", "t", "i", "o", "n", " ", "f", "i", "l", "e", " ", "a", "t", " ", "p", "a", "t", "h", ":">>,
     <<"F", "a", "i", "l", "e", "d", " ", "t", "o", " ", "o", "p", "e", "n", " ", "c", "o", "n", "f", "i", "g", "u", "r", "a", "t", "i", "o", "n", " ", "f", "i", "l", "e", " ", "a", "t", " ", "p", "a", "t", "h", ":">>}

\* the level at which executeWolframScript logs the stderr of a subprocess
\* that exited with code zero: nothing is logged when it is blank
StderrLogLevel_WarnsAll(stderr) ==
    IF Len(Trim(stderr)) = 0 THEN "none" ELSE "warn"

StderrLogLevel(stderr) ==
    IF Len(Trim(stderr)) = 0 THEN "none"
    ELSE IF \E warning \in BenignWarnings : Includes(Trim(stderr), warning) THEN "debug"
    ELSE "warn"

\* the stderr of a subprocess that exits with code zero: empty, blank, each
\* benign warning with a path around it, and a message of the kernel
SampleStderr ==
    {<<>>, <<" ">>,
     <<"F", "a", "i", "l", "e", "d", " ", "t", "o", " ", "o", "p", "e", "n", " ", "c", "o", "n", "f", "i", "g", "u", "a", "r", "a", "t", "i", "o", "n", " ", "f", "i", "l", "e", " ", "a", "t", " ", "p", "a", "t", "h", ":">> \o <<" ", "/", "c">>,
     <<"w", ":", " ">> \o <<"F", "a", "i", "l", "e", "d", " ", "t", "o", " ", "o", "p", "e", "n", " ", "c", "o", "n", "f", "i", "g", "u", "r", "a", "t", "i", "o", "n", " ", "f", "i", "l", "e", " ", "a", "t", " ", "p", "a", "t", "h", ":">> \o <<" ", "/", "c">>,
     <<"S", "y", "n", "t", "a", "x", ":", ":", "s", "n", "t", "x", "i">>}

\* what a subprocess that exits with code zero has written
SampleOutputs ==
    {[stdout |-> <<"2">>, stderr |-> e] : e \in SampleStderr}
    \cup {[stdout |-> o, stderr |-> <<>>] : o \in SampleStdout}

(***************************************************************************)
(* config/schema.ts: ExecuteMathematicaInputSchema                         *)
(***************************************************************************)
\* a JSON value of the arguments object: undefined, a string, an integer n,
\* or the non-integer number n + 1/2
JsUndefined == [t |-> "undefined", s |-> <<>>, n |-> 0]
JsString(s) == [t |-> "string", s |-> s, n |-> 0]
JsInteger(n) == [t |-> "integer", s |-> <<>>, n |-> n]
JsFraction(n) == [t |-> "fraction", s |-> <<>>, n |-> n]

CodeAccepted(v) == v.t = "string" /\ Len(v.s) >= 1
FormatAccepted(v) == v.t = "undefined" \/ (v.t = "string" /\ v.s \in OutputFormats)
TimeoutAccepted(v) ==
    v.t = "undefined" \/ (v.t = "integer" /\ v.n >= 1 /\ v.n <= SchemaMaxTimeout)
PathAccepted(v) == v.t \in {"undefined", "string"}

\* ExecuteMathematicaInputSchema.parse: success and the parsed input
ParseExecuteInput(args) ==
    [success |-> CodeAccepted(args.code) /\ FormatAccepted(args.format)
                 /\ TimeoutAccepted(args.timeout) /\ PathAccepted(args.path),
     code |-> args.code.s,
     format |-> IF args.format.t = "undefined" THEN FormatText ELSE args.format.s,
     timeout |-> args.timeout,
     path |-> args.path]

(***************************************************************************)
(* tools/execute-mathematica.ts, tools/list-packages.ts, server/mcp-server *)
(***************************************************************************)
Min(a, b) == IF a <= b THEN a ELSE b

\* the requested timeout taken as it is
EffectiveTimeout_Unclamped(input, cfg) ==
    IF input.timeout.t = "undefined" THEN cfg.DEFAULT_TIMEOUT ELSE input.timeout.n

\* Math.min(input.timeout ?? config.DEFAULT_TIMEOUT, config.MAX_TIMEOUT)
EffectiveTimeout(input, cfg) ==
    Min(IF input.timeout.t = "undefined" THEN cfg.DEFAULT_TIMEOUT ELSE input.timeout.n,
        cfg.MAX_TIMEOUT)

\* if (input.timeout && input.timeout > config.MAX_TIMEOUT) logger.warn(...)
ClampWarning(input, cfg) ==
    /\ input.timeout.t # "undefined"
    /\ input.timeout.n # 0
    /\ input.timeout.n > cfg.MAX_TIMEOUT

\* a CallToolResult; a result without isError is one with isError false
NoResult == [isError |-> FALSE, text |-> [none |-> TRUE]]
SuccessResult(payload) == [isError |-> FALSE, text |-> payload]
ErrorResult(envelope) == [isError |-> TRUE, text |-> envelope]

\* the tools/call request in service: how it came in, what it asked, the
\* subprocess and the timer executeWolframScript started for it, and how it ended
NoCall ==
    [phase |-> "none", via |-> "none", authorization |-> Absent, tool |-> "none",
     args |-> [code |-> JsUndefined, format |-> JsUndefined, timeout |-> JsUndefined,
               path |-> JsUndefined],
     timeout |-> 0, format |-> <<>>, cwd |-> Absent, warned |-> FALSE, spawns |-> 0,
     proc |-> "none", timer |-> "none", settledBy |-> "none", rejection |-> NoReason,
     stderr |-> <<>>, stderrLog |-> "none", argv |-> <<>>,
     thrown |-> NoError, result |-> NoResult]

\* the handler returns result
Returns(c, result) == [c EXCEPT !.phase = "returned", !.result = result]

\* the handler lets error escape to its caller
Throws(c, error) == [c EXCEPT !.phase = "threw", !.thrown = error]

\* a catch block that maps MathematicaError only and rethrows the rest
HandlerCatch_Rethrows(c, error) ==
    IF error.class = "MathematicaError"
    THEN Returns([c EXCEPT !.thrown = error], ErrorResult(FormatErrorForMcp(error)))
    ELSE Throws(c, error)

\* the catch block of handleExecuteMathematica and of handleListPackages
HandlerCatch(c, error) ==
    Returns([c EXCEPT !.thrown = error], ErrorResult(FormatErrorForMcp(error)))

\* a default branch that throws instead of returning
UnknownTool_Throws(c) == Throws(c, MathematicaExecutionError(<<"U", "n", "k", "n", "o", "w", "n", " ", "t", "o", "o", "l">>))

\* the default branch of the tools/call switch
UnknownTool(c) ==
    Returns(c, ErrorResult([error |-> "MethodNotFound",
                            message |-> <<"U", "n", "k", "n", "o", "w", "n", " ", "t", "o", "o", "l", ":", " ">>,
                            timestamp |-> IsoTimestamp]))

\* handleListPackages: the package getters read module state and do not throw
HandleListPackages(c) ==
    Returns(c, SuccessResult([configuredPackages |-> <<>>, autoLoad |-> FALSE,
                              total |-> 0, loaded |-> FALSE]))

\* WOLFRAM_SCRIPT_PATH as EnvSchema defaults it
WolframScriptPath == <<"w", "o", "l", "f", "r", "a", "m", "s", "c", "r", "i", "p", "t">>

\* wrappedCode: the code itself for text, else getFormatOption(format)[code]
WrappedCode(code, format) ==
    CASE format = FormatLatex -> <<"T", "e", "X", "F", "o", "r", "m", "[">> \o code \o <<"]">>
      [] format = FormatMathematica -> <<"I", "n", "p", "u", "t", "F", "o", "r", "m", "[">> \o code \o <<"]">>
      [] OTHER -> code

\* the template literal given to $: its constant text and, as substitutions,
\* the three interpolated values
CommandTemplate(wolframPath, timeoutSec, wrappedCode) ==
    <<[substitution |-> TRUE, text |-> wolframPath],
      [substitution |-> FALSE, text |-> <<" ", "-", "t", "i", "m", "e", "o", "u", "t", " ">>],
      [substitution |-> TRUE, text |-> ToDecimal(timeoutSec)],
      [substitution |-> FALSE, text |-> <<" ", "-", "c", "o", "d", "e", " ">>],
      [substitution |-> TRUE, text |-> wrappedCode]>>

\* a shell line made by pasting the substitutions into the text: every blank
\* separates words
ShellArgv_Pasted(template) ==
    LET RECURSIVE Flat(_)
        Flat(k) == IF k > Len(template) THEN <<>> ELSE template[k].text \o Flat(k + 1)
        line == Flat(1)
        RECURSIVE Words(_, _)
        Words(i, word) ==
            IF i > Len(line) THEN (IF Len(word) > 0 THEN <<word>> ELSE <<>>)
            ELSE IF IsWhitespace(line[i])
                 THEN (IF Len(word) > 0 THEN <<word>> ELSE <<>>) \o Words(i + 1, <<>>)
                 ELSE Words(i + 1, Append(word, line[i]))
    IN  Words(1, <<>>)

\* the argument vector Bun's $ runs for a template: the constant text is split
\* into words at its blanks, and a substituted string is escaped, so that its
\* characters stay in one word whatever they are
ShellArgv(template) ==
    LET RECURSIVE Flat(_)
        Flat(k) ==
            IF k > Len(template) THEN <<>>
            ELSE [i \in 1..Len(template[k].text) |->
                     [c |-> template[k].text[i], escaped |-> template[k].substitution]]
                 \o Flat(k + 1)
        line == Flat(1)
        RECURSIVE Words(_, _)
        Words(i, word) ==
            IF i > Len(line) THEN (IF Len(word) > 0 THEN <<word>> ELSE <<>>)
            ELSE IF ~line[i].escaped /\ IsWhitespace(line[i].c)
                 THEN (IF Len(word) > 0 THEN <<word>> ELSE <<>>) \o Words(i + 1, <<>>)
                 ELSE Words(i + 1, Append(word, line[i].c))
    IN  Words(1, <<>>)

\* executeWolframScript up to its await: one subprocess and one timer are started
StartExecution(c, input, cfg) ==
    [c EXCEPT !.phase = "awaiting",
              !.timeout = EffectiveTimeout(input, cfg),
              !.format = input.format,
              !.cwd = IF input.path.t = "string" /\ Len(input.path.s) > 0
                      THEN Present(input.path.s) ELSE Absent,
              !.warned = ClampWarning(input, cfg),
              !.spawns = c.spawns + 1,
              !.argv = ShellArgv(CommandTemplate(
                           WolframScriptPath, EffectiveTimeout(input, cfg),
                           WrappedCode(input.code, input.format))),
              !.proc = "running",
              !.timer = "pending"]

\* handleExecuteMathematica up to the await of executeWolframScript
HandleExecuteMathematica(c, cfg) ==
    LET input == ParseExecuteInput(c.args)
    IN  IF ~input.success THEN HandlerCatch(c, ZodError)
        ELSE StartExecution(c, input, cfg)

\* the tools/call handler registered by createMcpServer
CallToolHandler(c, cfg) ==
    CASE c.tool = "execute_mathematica" -> HandleExecuteMathematica(c, cfg)
      [] c.tool = "list_packages" -> HandleListPackages(c)
      [] OTHER -> UnknownTool(c)

\* an incoming tools/call request
NewCall(via, authorization, tool, args) ==
    [NoCall EXCEPT !.via = via, !.authorization = authorization,
                   !.tool = tool, !.args = args]

\* executeWolframScript after the race resolved with the subprocess's output,
\* and handleExecuteMathematica after it
ExecutionSucceeds(c, stdout, stderr) ==
    Returns([c EXCEPT !.stderr = stderr, !.stderrLog = StderrLogLevel(stderr)],
            SuccessResult(FormatOutput(stdout, c.format)))

\* a failure path that runs the command once more before it gives up
ExecutionFails_Retries(c, reason) ==
    IF c.spawns < 2
    THEN [c EXCEPT !.spawns = c.spawns + 1, !.proc = "running", !.timer = "pending",
                   !.settledBy = "none"]
    ELSE HandlerCatch(c, ClassifyFailure(reason, c.timeout))

\* executeWolframScript after the race rejected, and handleExecuteMathematica
\* after it
ExecutionFails(c, reason) == HandlerCatch(c, ClassifyFailure(reason, c.timeout))

(***************************************************************************)
(* The requests offered to the server.                                     *)
(***************************************************************************)
ToolNames == {"execute_mathematica", "list_packages", "foo", "Execute_Mathematica"}

SampleCode == <<"1", "+", "1">>

CodeValues == {JsUndefined, JsString(<<>>), JsString(SampleCode)}

FormatValues ==
    {JsUndefined, JsString(FormatLatex), JsString(FormatMathematica),
     JsString(<<"p", "d", "f">>)}

TimeoutValues ==
    {JsUndefined, JsInteger(0), JsFraction(1), JsInteger(SchemaMaxTimeout + 1)}
    \cup {JsInteger(n) : n \in 1..(MaxCfgTimeout + 1)}

\* a directory that exists and one that does not
ExistingDir == <<"/", "t", "m", "p">>
MissingDir == <<"/", "n", "o">>

PathValues ==
    {JsUndefined, JsString(<<>>), JsString(ExistingDir), JsString(MissingDir),
     JsInteger(1)}

ValidArgs ==
    [code : {JsString(SampleCode)},
     format : {v \in FormatValues : FormatAccepted(v)},
     timeout : {v \in TimeoutValues : TimeoutAccepted(v)},
     path : {JsUndefined}]

ValidSampleArgs ==
    [code |-> JsString(SampleCode), format |-> JsUndefined, timeout |-> JsUndefined,
     path |-> JsUndefined]

\* the argument objects sent to execute_mathematica: the ones the schema
\* accepts, and ValidSampleArgs with one or with every field replaced
ToolArgs ==
    ValidArgs
    \cup {[ValidSampleArgs EXCEPT !.code = v] : v \in CodeValues}
    \cup {[ValidSampleArgs EXCEPT !.format = v] : v \in FormatValues}
    \cup {[ValidSampleArgs EXCEPT !.timeout = v] : v \in TimeoutValues}
    \cup {[ValidSampleArgs EXCEPT !.path = v] : v \in PathValues}
    \cup {[code |-> JsUndefined, format |-> JsString(<<"p", "d", "f">>),
           timeout |-> JsInteger(0), path |-> JsInteger(1)]}

\* the tools/call requests: every argument object for execute_mathematica, and
\* for the other names an argument object execute_mathematica would accept
ToolCalls ==
    {[tool |-> "execute_mathematica", args |-> a] : a \in ToolArgs}
    \cup {[tool |-> n, args |-> ValidSampleArgs] :
            n \in ToolNames \ {"execute_mathematica"}}

\* Authorization headers sent to /mcp
McpHeaders ==
    {Absent,
     Present(BearerPrefix \o SampleKey),
     Present(BearerPrefix \o Repeat("K", MinApiKeyLength))}

(***************************************************************************)
(* middleware/auth.ts and server/transports/http.ts: the responses         *)
(***************************************************************************)
\* createUnauthorizedResponse without the challenge header
CreateUnauthorizedResponse_NoChallenge(message) ==
    [status |-> 401,
     wwwAuthenticate |-> Absent,
     body |-> [error |-> <<"U", "n", "a", "u", "t", "h", "o", "r", "i", "z", "e", "d">>,
               message |-> message,
               timestamp |-> IsoTimestamp]]

CreateUnauthorizedResponse(message) ==
    [status |-> 401,
     wwwAuthenticate |-> Present(<<"B", "e", "a", "r", "e", "r", " ", "r", "e", "a", "l", "m", "=", "\"", "M", "a", "t", "h", "e", "m", "a", "t", "i", "c", "a", " ", "M", "C", "P", " ", "S", "e", "r", "v", "e", "r", "\"">>),
     body |-> [error |-> <<"U", "n", "a", "u", "t", "h", "o", "r", "i", "z", "e", "d">>,
               message |-> message,
               timestamp |-> IsoTimestamp]]

\* what transport.handleRequest answers to a tools/call request: the JSON-RPC
\* response carrying the handler's CallToolResult
McpResponse(result) ==
    [status |-> 200, wwwAuthenticate |-> Absent, body |-> [result |-> result]]

InfoResponse(cfg) ==
    [status |-> 200, wwwAuthenticate |-> Absent,
     body |-> [name |-> "mathematica-mcp-server",
               authentication |-> IF cfg.MCP_API_KEY.present
                                     /\ Len(cfg.MCP_API_KEY.value) > 0
                                  THEN "bearer" ELSE "disabled"]]

NotFoundResponse ==
    [status |-> 404, wwwAuthenticate |-> Absent,
     body |-> [error |-> <<"N", "o", "t", "F", "o", "u", "n", "d">>, timestamp |-> IsoTimestamp]]

\* a request and the response sent for it
Exchange(path, authorization, response) ==
    [path |-> path, authorization |-> authorization, response |-> response]

NoExchange ==
    Exchange("none", Absent,
             [status |-> 0, wwwAuthenticate |-> Absent, body |-> [none |-> TRUE]])

(***************************************************************************)
(* The server: startup (server/index.ts startServer, server/mcp-server.ts  *)
(* createMcpServer), one step per stretch of code between two awaits.      *)
(***************************************************************************)
\* no function of the formatter has been applied
NoFmt ==
    [op |-> "none", output |-> <<>>, maxLength |-> 0, format |-> FormatText,
     result |-> <<>>, returned |-> FormatText, again |-> <<>>]

\* what startup records in events: the availability check returned true or
\* false, new Server(...) was evaluated, warmupWolframKernel returned true, the
\* transport's start function returned; and, from shutdown, stopServer has
\* reset the health state.  No statement of startServer or of createMcpServer
\* calls warmupWolframKernel.
StartupEvents ==
    {"wolframScriptChecked", "wolframScriptUnavailable", "serverCreated",
     "kernelWarmedUp", "transportStarted", "stopServerReset", "unhandledRejection"}

\* the process before any signal
ProcessRunning == [shutdown |-> "idle", exitCode |-> "none"]

\* a process.exit that returns without ending the process
Exit_Ignored(p, code) == p

\* a process.exit that ends the process only with a failure code
Exit_OnlyOnFailure(p, code) == IF code = "0" THEN p ELSE [p EXCEPT !.exitCode = code]

\* process.exit(code)
Exit(p, code) == [p EXCEPT !.exitCode = code]

\* no process.exit has run
Alive == process.exitCode = "none"

Init ==
    /\ auth = NoAuth
    /\ env \in Envs
    /\ config = NoConfig
    /\ pc = "boot"
    /\ serverState = InitialServerState
    /\ mcpServer = "null"
    /\ httpServer = "null"
    /\ call = NoCall
    /\ httpResp = NoExchange
    /\ fmt = NoFmt
    /\ logger = NewLogger(env.LOG_LEVEL)
    /\ events = {}
    /\ process = ProcessRunning

\* a catch block that clears the checks as it records the message
StartupFails_ClearsChecks(state, message) ==
    [InitialServerState EXCEPT !.initializationError = message,
                               !.startedAt = state.startedAt]

\* the catch block of startServer: record the message and rethrow
StartupFails(state, message) == [state EXCEPT !.initializationError = message]

\* the warnings of loadEnvConfig
ConfigWarns(e) ==
    \/ e.MCP_TRANSPORT = "http" /\ ~e.MCP_API_KEY.present
    \/ e.DEFAULT_TIMEOUT > e.MAX_TIMEOUT

\* startServer from its first line to the await inside createMcpServer; when
\* loadEnvConfig throws, startServer rethrows and main exits with code 1
StartServer ==
    /\ Alive
    /\ pc = "boot"
    /\ IF EnvSchemaAccepts(env)
       THEN /\ config' = LoadEnvConfig(env)
            /\ serverState' = ResetServerState
            /\ pc' = "checkWolframScript"
            /\ logger' = SetLevel(
                            LogAll(logger, {"info", "debug"}
                                           \cup IF ConfigWarns(env) THEN {"warn"} ELSE {}),
                            LoadEnvConfig(env).LOG_LEVEL)
            /\ process' = process
       ELSE /\ config' = config
            /\ serverState' = StartupFails(ResetServerState, "Configuration error")
            /\ pc' = "failed"
            /\ logger' = LogAll(logger, {"info", "error"})
            /\ process' = Exit(process, "1")
    /\ UNCHANGED <<auth, fmt, env, mcpServer, httpServer, call, httpResp, events>>

\* checkWolframScriptInstallation resolves.  On true createMcpServer builds
\* the Server object and goes on to preloadPackages; on false it throws
\* WolframScriptNotFoundError, startServer rethrows and main exits with code 1
CheckWolframScript(available) ==
    /\ Alive
    /\ pc = "checkWolframScript"
    /\ IF available
       THEN /\ pc' = "preloadPackages"
            /\ serverState' = serverState
            /\ events' = events \cup {"wolframScriptChecked", "serverCreated"}
            /\ logger' = LogAll(logger, {"info", "debug"})
            /\ process' = process
       ELSE /\ pc' = "failed"
            /\ serverState' = StartupFails(serverState, "WolframScript not found")
            /\ events' = events \cup {"wolframScriptUnavailable"}
            /\ logger' = LogAll(logger, {"error"})
            /\ process' = Exit(process, "1")
    /\ UNCHANGED <<auth, fmt, env, config, mcpServer, httpServer, call, httpResp>>

\* the log lines of startServer and of the transport's start function up to
\* its await of connect; startStdioTransport logs one line and then redirects
TransportStartLog(lg, cfg) ==
    IF cfg.MCP_TRANSPORT = "http"
    THEN LogAll(lg, {"info", "debug"}
                    \cup IF cfg.MCP_API_KEY.present THEN {} ELSE {"warn"})
    ELSE LogAll(RedirectToStderr(LogAll(lg, {"info", "debug"})), {"info", "debug"})

\* preloadPackages settles (a rejection is caught and logged), createMcpServer
\* returns the server, startServer marks three checks and runs to the await of
\* the transport's connect
McpServerCreated(preloaded) ==
    /\ Alive
    /\ pc = "preloadPackages"
    /\ mcpServer' = "live"
    /\ serverState' = [serverState EXCEPT !.wolframScriptAvailable = TRUE,
                                          !.wolframKernelInitialized = TRUE,
                                          !.mcpServerConnected = TRUE]
    /\ pc' = "connect"
    /\ logger' = TransportStartLog(
                    LogAll(logger, IF preloaded THEN {"info"}
                                   ELSE {"info", "error", "warn"}),
                    config)
    /\ UNCHANGED <<auth, fmt, env, config, httpServer, call, httpResp, events, process>>

\* connect settles; in HTTP mode Bun.serve then binds the port or throws.  On
\* a throw startServer rethrows and main exits with code 1
TransportStarted(ok) ==
    /\ Alive
    /\ pc = "connect"
    /\ IF ok
       THEN /\ httpServer' = IF config.MCP_TRANSPORT = "http" THEN "live" ELSE httpServer
            /\ serverState' = [serverState EXCEPT !.transportConnected = TRUE]
            /\ pc' = "running"
            /\ events' = events \cup {"transportStarted"}
            /\ logger' = LogAll(logger, {"info", "debug"}
                                        \cup IF config.MCP_TRANSPORT = "http"
                                                /\ ~config.MCP_API_KEY.present
                                             THEN {"warn"} ELSE {})
            /\ process' = process
       ELSE /\ httpServer' = httpServer
            /\ serverState' = StartupFails(serverState, "Transport failed")
            /\ pc' = "failed"
            /\ events' = events
            /\ logger' = LogAll(logger, {"error"})
            /\ process' = Exit(process, "1")
    /\ UNCHANGED <<auth, fmt, env, config, mcpServer, call, httpResp>>

(***************************************************************************)
(* The server: requests.                                                   *)
(***************************************************************************)
Listening == pc = "running" /\ config.MCP_TRANSPORT = "http" /\ httpServer = "live"

\* the model follows one tools/call request at a time
CanAccept == call.phase = "none"

\* the levels of the lines the tools/call handler logs before it returns c or
\* awaits the executor for c
CallLogLevels(c) ==
    {"debug", "info"}
    \cup (IF c.phase = "returned" /\ c.result.isError THEN {"error"} ELSE {})
    \cup (IF c.warned THEN {"warn"} ELSE {})

\* fetch on /mcp; the body, a tools/call request, is read by
\* transport.handleRequest only
HttpMcp(authorization) ==
    /\ Alive
    /\ Listening
    /\ CanAccept
    /\ IF ~ValidateBearerToken(authorization, config.MCP_API_KEY)
       THEN /\ httpResp' = Exchange("/mcp", authorization,
                              CreateUnauthorizedResponse(
                                  <<"I", "n", "v", "a", "l", "i", "d", " ", "o", "r", " ", "m", "i", "s", "s", "i", "n", "g", " ", "b", "e", "a", "r", "e", "r", " ", "t", "o", "k", "e", "n">>))
            /\ call' = call
            /\ logger' = LogAll(logger, {"debug", "warn"})
       ELSE /\ \E request \in ToolCalls :
                 call' = CallToolHandler(
                             NewCall("http", authorization, request.tool, request.args),
                             config)
            /\ httpResp' = IF call'.phase = "returned"
                           THEN Exchange("/mcp", authorization, McpResponse(call'.result))
                           ELSE httpResp
            /\ logger' = LogAll(logger, CallLogLevels(call'))
    /\ UNCHANGED <<auth, fmt, env, config, pc, serverState, mcpServer, httpServer,
                   events, process>>

\* the /health branch of fetch
HealthBranch ==
    httpResp' = Exchange("/health", Absent,
                         HealthResponse(GetServerHealthStatus(serverState)))

\* fetch on /health
HttpHealth ==
    /\ Alive
    /\ Listening
    /\ HealthBranch
    /\ logger' = LogAll(logger, {"debug"})
    /\ UNCHANGED <<auth, fmt, env, config, pc, serverState, mcpServer, httpServer, call,
                   events, process>>

\* fetch on /info and on any other path, followed between tools/call requests
HttpOther(path) ==
    /\ Alive
    /\ Listening
    /\ CanAccept
    /\ httpResp' = Exchange(path, Absent,
                            IF path = "/info" THEN InfoResponse(config)
                            ELSE NotFoundResponse)
    /\ logger' = LogAll(logger, {"debug"})
    /\ UNCHANGED <<auth, fmt, env, config, pc, serverState, mcpServer, httpServer, call,
                   events, process>>

\* a tools/call message read from stdin
StdioCall(request) ==
    /\ Alive
    /\ pc = "running"
    /\ config.MCP_TRANSPORT = "stdio"
    /\ mcpServer = "live"
    /\ CanAccept
    /\ call' = CallToolHandler(NewCall("stdio", Absent, request.tool, request.args),
                               config)
    /\ logger' = LogAll(logger, CallLogLevels(call'))
    /\ UNCHANGED <<auth, fmt, env, config, pc, serverState, mcpServer, httpServer,
                   httpResp, events, process>>

\* the response to the tools/call request once its handler has returned
Respond(c) ==
    IF c.via = "http" /\ c.phase = "returned"
    THEN Exchange("/mcp", c.authorization, McpResponse(c.result))
    ELSE httpResp

\* the rejections the subprocess of call c can end with: with a working
\* directory that does not exist it is never spawned
RejectionsOf(c) ==
    IF c.cwd = Present(MissingDir) THEN CwdFailures ELSE ProcRejections

\* the subprocess exits with code zero: its promise resolves.  The race takes
\* it unless the timer has settled the race already
\* the promises Promise.race subscribes to: a rejection of either is handled
\* by the race, whether that promise wins or loses
RaceInputs == {"proc", "timer"}

\* a rejection nobody subscribed to reaches the unhandledRejection handler
RejectPromise_Unhandled(evts, promise) == evts \cup {"unhandledRejection"}

\* a promise rejects: the unhandledRejection handler of setupShutdownHandlers
\* is entered only when no reaction is attached to the promise
RejectPromise(evts, promise) ==
    IF promise \in RaceInputs THEN evts ELSE evts \cup {"unhandledRejection"}

ProcResolves(stdout, stderr) ==
    /\ Alive
    /\ call.proc = "running"
    /\ call.cwd # Present(MissingDir)
    /\ call' = IF call.settledBy = "none"
               THEN ExecutionSucceeds([call EXCEPT !.proc = "resolved",
                                                   !.settledBy = "proc"],
                                    stdout, stderr)
               ELSE [call EXCEPT !.proc = "resolved"]
    /\ httpResp' = IF call.settledBy = "none" THEN Respond(call') ELSE httpResp
    /\ logger' = IF call.settledBy = "none"
                 THEN LogAll(logger, {"debug", "info"} \cup ({call'.stderrLog} \ {"none"}))
                 ELSE logger
    /\ UNCHANGED <<auth, fmt, env, config, pc, serverState, mcpServer, httpServer,
                   events, process>>

\* a rejection that also marks the engine unavailable in the health state
ProcRejects_MarksUnavailable(reason) ==
    /\ Alive
    /\ call.proc = "running"
    /\ reason \in RejectionsOf(call)
    /\ call' = IF call.settledBy = "none"
               THEN ExecutionFails([call EXCEPT !.proc = "rejected",
                                                !.settledBy = "proc",
                                                !.rejection = reason], reason)
               ELSE [call EXCEPT !.proc = "rejected", !.rejection = reason]
    /\ httpResp' = IF call.settledBy = "none" THEN Respond(call') ELSE httpResp
    /\ logger' = IF call.settledBy = "none" THEN LogAll(logger, {"error"}) ELSE logger
    /\ serverState' = [serverState EXCEPT !.wolframScriptAvailable = FALSE]
    /\ events' = RejectPromise(events, "proc")
    /\ UNCHANGED <<auth, fmt, env, config, pc, mcpServer, httpServer, process>>

\* the subprocess promise rejects: it could not be spawned, or it exited with
\* a non-zero code
ProcRejects(reason) ==
    /\ Alive
    /\ call.proc = "running"
    /\ reason \in RejectionsOf(call)
    /\ call' = IF call.settledBy = "none"
               THEN ExecutionFails([call EXCEPT !.proc = "rejected",
                                                !.settledBy = "proc",
                                                !.rejection = reason], reason)
               ELSE [call EXCEPT !.proc = "rejected", !.rejection = reason]
    /\ httpResp' = IF call.settledBy = "none" THEN Respond(call') ELSE httpResp
    /\ logger' = IF call.settledBy = "none" THEN LogAll(logger, {"error"}) ELSE logger
    /\ events' = RejectPromise(events, "proc")
    /\ UNCHANGED <<auth, fmt, env, config, pc, serverState, mcpServer, httpServer,
                   process>>

\* setTimeout fires after timeout * 1000 ms: timeoutPromise rejects.  The
\* timer is never cleared, so it fires whether or not the race is settled;
\* nothing in the code touches the subprocess
TimerFires ==
    /\ Alive
    /\ call.timer = "pending"
    /\ call' = IF call.settledBy = "none"
               THEN ExecutionFails([call EXCEPT !.timer = "fired",
                                                !.settledBy = "timer"], TimerReason)
               ELSE [call EXCEPT !.timer = "fired"]
    /\ httpResp' = IF call.settledBy = "none" THEN Respond(call') ELSE httpResp
    /\ logger' = IF call.settledBy = "none" THEN LogAll(logger, {"error"}) ELSE logger
    /\ events' = RejectPromise(events, "timer")
    /\ UNCHANGED <<auth, fmt, env, config, pc, serverState, mcpServer, httpServer,
                   process>>

\* the request's task has ended and its values are dropped; a subprocess or a
\* timer it left behind is followed no further
CallEnds ==
    /\ Alive
    /\ call.phase \in {"returned", "threw"}
    /\ call' = NoCall
    /\ UNCHANGED <<auth, fmt, env, config, pc, serverState, mcpServer, httpServer,
                   httpResp, logger, events, process>>

(***************************************************************************)
(* The server: shutdown.                                                   *)
(***************************************************************************)
\* SIGINT or SIGTERM once startServer has run to its first await:
\* handleShutdown calls stopServer, which stops the HTTP listener and runs to
\* its await of mcpServer.close(); with no MCP server held it resets the
\* health state at once and handleShutdown exits with code 0
HandleShutdown ==
    /\ Alive
    /\ process.shutdown = "idle"
    /\ pc # "boot"
    /\ httpServer' = "null"
    /\ logger' = LogAll(logger, {"info"})
    /\ IF mcpServer # "null"
       THEN /\ process' = [process EXCEPT !.shutdown = "closing"]
            /\ serverState' = serverState
            /\ events' = events
       ELSE /\ process' = Exit(process, "0")
            /\ serverState' = InitialServerState
            /\ events' = events \cup {"stopServerReset"}
    /\ UNCHANGED <<auth, fmt, env, config, pc, mcpServer, call, httpResp>>

\* mcpServer.close() settles: stopServer clears the reference, resets the
\* health state and handleShutdown exits with code 0; on a rejection stopServer
\* rethrows and handleShutdown exits with code 1.  The request in service ends
\* with the process
ServerClosed(ok) ==
    /\ Alive
    /\ process.shutdown = "closing"
    /\ IF ok
       THEN /\ mcpServer' = "null"
            /\ serverState' = InitialServerState
            /\ logger' = LogAll(logger, {"info"})
            /\ events' = events \cup {"stopServerReset"}
            /\ process' = Exit(process, "0")
       ELSE /\ mcpServer' = mcpServer
            /\ serverState' = serverState
            /\ logger' = LogAll(logger, {"error"})
            /\ events' = events
            /\ process' = Exit(process, "1")
    /\ call' = NoCall
    /\ UNCHANGED <<auth, fmt, env, config, pc, httpServer, httpResp>>

Next ==
    \/ StartServer
    \/ \E available \in BOOLEAN : CheckWolframScript(available)
    \/ \E preloaded \in BOOLEAN : McpServerCreated(preloaded)
    \/ \E ok \in BOOLEAN : TransportStarted(ok)
    \/ \E h \in McpHeaders : HttpMcp(h)
    \/ HttpHealth
    \/ \E path \in {"/info", "/other"} : HttpOther(path)
    \/ \E r \in ToolCalls : StdioCall(r)
    \/ \E out \in SampleOutputs : ProcResolves(out.stdout, out.stderr)
    \/ \E reason \in ProcRejections \cup CwdFailures : ProcRejects(reason)
    \/ TimerFires
    \/ CallEnds
    \/ HandleShutdown
    \/ \E ok \in BOOLEAN : ServerClosed(ok)

Spec == Init /\ [][Next]_vars

(***************************************************************************)
(* validateBearerToken applied to one header and one expected key.         *)
(***************************************************************************)
InitAuth ==
    /\ auth \in [header : AuthHeaders, key : AuthKeys, applied : {FALSE}, ok : {FALSE},
                 compared : {FALSE}, iterations : {0}]
    /\ env \in {e \in Envs : e.MCP_TRANSPORT = "http" /\ e.DEFAULT_TIMEOUT = 1
                             /\ e.MAX_TIMEOUT = 1 /\ ~e.MCP_API_KEY.present
                             /\ e.LOG_LEVEL = "info"}
    /\ config = NoConfig
    /\ pc = "boot"
    /\ serverState = InitialServerState
    /\ mcpServer = "null"
    /\ httpServer = "null"
    /\ call = NoCall
    /\ httpResp = NoExchange
    /\ fmt = NoFmt
    /\ logger = NewLogger(env.LOG_LEVEL)
    /\ events = {}
    /\ process = ProcessRunning

ApplyValidateBearerToken ==
    /\ ~auth.applied
    /\ LET token == ExtractBearerToken(auth.header)
           compared == /\ auth.key.present
                       /\ Len(auth.key.value) # 0
                       /\ token.present
       IN  auth' = [auth EXCEPT
                      !.applied = TRUE,
                      !.ok = ValidateBearerToken(auth.header, auth.key),
                      !.compared = compared,
                      !.iterations =
                          IF compared
                          THEN TimingSafeEqual(token.value, auth.key.value).iterations
                          ELSE 0]
    /\ UNCHANGED mainVars

NextAuth == ApplyValidateBearerToken

SpecAuth == InitAuth /\ [][NextAuth]_vars

(***************************************************************************)
(* getServerHealthStatus and the /health branch applied to every value of  *)
(* the health structure.                                                   *)
(***************************************************************************)
HealthStructures ==
    [wolframScriptAvailable : BOOLEAN,
     wolframKernelInitialized : BOOLEAN,
     mcpServerConnected : BOOLEAN,
     transportConnected : BOOLEAN,
     initializationError : {"null", "WolframScript not found"},
     startedAt : {"null", "date"}]

InitHealth ==
    /\ auth = NoAuth
    /\ env \in {e \in Envs : e.MCP_TRANSPORT = "http" /\ e.DEFAULT_TIMEOUT = 1
                             /\ e.MAX_TIMEOUT = 1 /\ ~e.MCP_API_KEY.present
                             /\ e.LOG_LEVEL = "info"}
    /\ config = NoConfig
    /\ pc = "health"
    /\ serverState \in HealthStructures
    /\ mcpServer = "null"
    /\ httpServer = "null"
    /\ call = NoCall
    /\ httpResp = NoExchange
    /\ fmt = NoFmt
    /\ logger = NewLogger(env.LOG_LEVEL)
    /\ events = {}
    /\ process = ProcessRunning

QueryHealth ==
    /\ pc = "health"
    /\ httpResp.path # "/health"
    /\ HealthBranch
    /\ UNCHANGED <<auth, fmt, env, config, pc, serverState, mcpServer, httpServer, call,
                   logger, events, process>>

NextHealth == QueryHealth

SpecHealth == InitHealth /\ [][NextHealth]_vars

(***************************************************************************)
(* handleShutdown and stopServer applied to every value of the health      *)
(* structure and of the two server references.                             *)
(***************************************************************************)
InitStop ==
    /\ auth = NoAuth
    /\ env \in {e \in Envs : e.MCP_TRANSPORT = "http" /\ e.DEFAULT_TIMEOUT = 1
                             /\ e.MAX_TIMEOUT = 1 /\ ~e.MCP_API_KEY.present
                             /\ e.LOG_LEVEL = "info"}
    /\ config = NoConfig
    /\ serverState \in HealthStructures
    /\ pc = IF serverState.initializationError = "null" THEN "running" ELSE "failed"
    /\ mcpServer \in {"null", "live"}
    /\ httpServer \in {"null", "live"}
    /\ call = NoCall
    /\ httpResp = NoExchange
    /\ fmt = NoFmt
    /\ logger = NewLogger(env.LOG_LEVEL)
    /\ events = {}
    /\ process = ProcessRunning

NextStop ==
    \/ HandleShutdown
    \/ \E ok \in BOOLEAN : ServerClosed(ok)

SpecStop == InitStop /\ [][NextStop]_vars

(***************************************************************************)
(* execute_mathematica called on a running stdio server with code strings  *)
(* that hold blanks, quotes and separators.                                *)
(***************************************************************************)
CommandCalls ==
    {[tool |-> "execute_mathematica",
      args |-> [code |-> JsString(code), format |-> JsString(format),
                timeout |-> JsInteger(timeout), path |-> JsUndefined]] :
        code \in UNION {[1..n -> {"1", " ", "\"", ";"}] : n \in 1..MaxCodeLen},
        format \in OutputFormats,
        timeout \in 1..MaxCfgTimeout}

\* the state startServer leaves in stdio mode
InitCommand ==
    /\ auth = NoAuth
    /\ env \in {e \in Envs : e.MCP_TRANSPORT = "stdio" /\ e.DEFAULT_TIMEOUT = 1
                             /\ e.MAX_TIMEOUT = MaxCfgTimeout /\ ~e.MCP_API_KEY.present
                             /\ e.LOG_LEVEL = "info"}
    /\ config = LoadEnvConfig(env)
    /\ pc = "running"
    /\ serverState = [ResetServerState EXCEPT !.wolframScriptAvailable = TRUE,
                                              !.wolframKernelInitialized = TRUE,
                                              !.mcpServerConnected = TRUE,
                                              !.transportConnected = TRUE]
    /\ mcpServer = "live"
    /\ httpServer = "null"
    /\ call = NoCall
    /\ httpResp = NoExchange
    /\ fmt = NoFmt
    /\ logger = [NewLogger(env.LOG_LEVEL) EXCEPT !.useStderr = TRUE,
                                                 !.written = {"stdout", "stderr"}]
    /\ events = {"wolframScriptChecked", "serverCreated", "transportStarted"}
    /\ process = ProcessRunning

SpecCommand == InitCommand /\ [][\E r \in CommandCalls : StdioCall(r)]_vars

(***************************************************************************)
(* truncateOutput and formatOutput applied to one raw output.              *)
(***************************************************************************)
\* the raw outputs: every string of plain characters, blanks and pieces of
\* colour sequences up to MaxOutputLen, and one whose length has two digits
RawOutputs ==
    UNION {[1..n -> {"ESC", "[", "0", "m", " "}] : n \in 0..MaxOutputLen}
    \cup {Repeat("0", 2 * MaxOutputLen + 2)}

\* truncateOutput takes no format and formatOutput no limit: the limit varies
\* at one format and the format at one limit
InitFormat ==
    /\ fmt \in {[NoFmt EXCEPT !.output = o, !.maxLength = s[1], !.format = s[2]] :
                  o \in RawOutputs,
                  s \in ((0..MaxLimit) \X {FormatText}) \cup ({0} \X OutputFormats)}
    /\ auth = NoAuth
    /\ env \in {e \in Envs : e.MCP_TRANSPORT = "http" /\ e.DEFAULT_TIMEOUT = 1
                             /\ e.MAX_TIMEOUT = 1 /\ ~e.MCP_API_KEY.present
                             /\ e.LOG_LEVEL = "info"}
    /\ config = NoConfig
    /\ pc = "boot"
    /\ serverState = InitialServerState
    /\ mcpServer = "null"
    /\ httpServer = "null"
    /\ call = NoCall
    /\ httpResp = NoExchange
    /\ logger = NewLogger(env.LOG_LEVEL)
    /\ events = {}
    /\ process = ProcessRunning

ApplyTruncateOutput ==
    /\ fmt.op = "none"
    /\ fmt' = [fmt EXCEPT !.op = "truncateOutput",
                          !.result = TruncateOutput(fmt.output, fmt.maxLength)]
    /\ UNCHANGED <<auth, env, config, pc, serverState, mcpServer, httpServer, call,
                   httpResp, logger, events, process>>

\* truncateOutput applied to its own result, with the same limit
ApplyTruncateOutputAgain ==
    /\ fmt.op = "truncateOutput"
    /\ fmt' = [fmt EXCEPT !.op = "truncateOutputTwice",
                          !.again = TruncateOutput(fmt.result, fmt.maxLength)]
    /\ UNCHANGED <<auth, env, config, pc, serverState, mcpServer, httpServer, call,
                   httpResp, logger, events, process>>

ApplyFormatOutput ==
    /\ fmt.op = "none"
    /\ fmt' = [fmt EXCEPT !.op = "formatOutput",
                          !.result = FormatOutput(fmt.output, fmt.format).content,
                          !.returned = FormatOutput(fmt.output, fmt.format).format]
    /\ UNCHANGED <<auth, env, config, pc, serverState, mcpServer, httpServer, call,
                   httpResp, logger, events, process>>

NextFormat ==
    \/ ApplyTruncateOutput
    \/ ApplyTruncateOutputAgain
    \/ ApplyFormatOutput

SpecFormat == InitFormat /\ [][NextFormat]_vars

(***************************************************************************)
(* Properties.                                                             *)
(***************************************************************************)
TimerWon == call.settledBy = "timer"

\* C1: when the timer fires before the subprocess completes, the call fails
\* with MathematicaTimeoutError carrying the timeout, and with no other error.
C1_TimerWinsTimeoutError ==
    TimerWon =>
        /\ call.thrown.name \in {"MathematicaTimeoutError", "TimeoutError"}
        /\ call.thrown.timeout \in {call.timeout, call.timeout * 1000}

\* C2: when the call has failed because the timer won the race, its
\* subprocess is no longer running.
C2_TimedOutSubprocessKilled == TimerWon => call.proc # "running"

KeyUnset(key) == ~key.present \/ Len(key.value) = 0

\* C3: validateBearerToken is true for every request when the key is unset or
\* empty; otherwise it is true iff the Authorization header is exactly
\* 'Bearer ' followed by the key.
C3_BearerExactMatch ==
    auth.applied =>
        (auth.ok <=> \/ KeyUnset(auth.key)
                     \/ /\ auth.header.present
                        /\ auth.header.value = BearerPrefix \o auth.key.value)

KeyConfigured == config.loaded /\ ~KeyUnset(config.MCP_API_KEY)

\* the request of the last exchange was sent to /mcp and fails the bearer check
LastRequestUnauthorized ==
    /\ httpResp.path = "/mcp"
    /\ KeyConfigured
    /\ ~ValidateBearerToken(httpResp.authorization, config.MCP_API_KEY)

\* C4: with a key configured, a request to /mcp that fails the bearer check is
\* answered 401 with WWW-Authenticate: Bearer and a body {error, message,
\* timestamp} that does not contain the key; and no request that fails the
\* check reaches the tools/call handler.
C4_UnauthorizedRejected ==
    /\ LastRequestUnauthorized =>
          LET r == httpResp.response
          IN  /\ r.status = 401
              /\ r.wwwAuthenticate.present
              /\ StartsWith(r.wwwAuthenticate.value, <<"B", "e", "a", "r", "e", "r">>)
              /\ DOMAIN r.body = {"error", "message", "timestamp"}
              /\ \A f \in DOMAIN r.body :
                    ~Includes(r.body[f], config.MCP_API_KEY.value)
    /\ (KeyConfigured /\ call.via = "http") =>
          ValidateBearerToken(call.authorization, config.MCP_API_KEY)

\* C4 witness: a key is configured and the last /mcp request, carrying a
\* token that differs from the key in case only, was answered 401.
C4_Witness ==
    /\ LastRequestUnauthorized
    /\ httpResp.authorization.present
    /\ httpResp.response.status = 401
    /\ call.phase = "none"

CheckNames ==
    {"wolframScriptAvailable", "wolframKernelInitialized", "mcpServerConnected",
     "transportConnected"}

AllChecksTrue == \A c \in CheckNames : serverState[c]
AllChecksFalse == \A c \in CheckNames : ~serverState[c]
NoInitializationError == serverState.initializationError = "null"
HealthServed == httpResp.path = "/health"

\* C5: the status of getServerHealthStatus is 'ok' iff the four checks are
\* true and the error is null, 'initializing' iff the four checks are false
\* and the error is null, and 'error' in every other combination.
C5_StatusIsFunctionOfChecks ==
    HealthServed =>
        LET status == httpResp.response.body.status
        IN  /\ status = "ok" <=> (AllChecksTrue /\ NoInitializationError)
            /\ status = "initializing" <=> (AllChecksFalse /\ NoInitializationError)
            /\ status = "error" <=> /\ ~(AllChecksTrue /\ NoInitializationError)
                                    /\ ~(AllChecksFalse /\ NoInitializationError)

\* C5 witness: a health query answered 'error' with no error recorded, some
\* checks true and some false.
C5_Witness ==
    /\ HealthServed
    /\ NoInitializationError
    /\ ~AllChecksTrue
    /\ ~AllChecksFalse
    /\ httpResp.response.body.status = "error"

CheckLabel(c) ==
    CASE c = "wolframScriptAvailable" -> "WolframScript not available"
      [] c = "wolframKernelInitialized" -> "Wolfram Kernel not initialized"
      [] c = "mcpServerConnected" -> "MCP server not connected"
      [] c = "transportConnected" -> "Transport not connected"

InService == call.phase # "none"
ExecuteCalled == InService /\ call.tool = "execute_mathematica"
ArgumentsValid == ParseExecuteInput(call.args).success
IsEnvelope(result) ==
    /\ result.isError
    /\ {"error", "message", "timestamp"} \subseteq DOMAIN result.text

\* C7: an execute_mathematica call whose arguments the schema rejects returns
\* an error result whose error kind is ValidationError, and spawns nothing.
C7_InvalidArgumentsValidationError ==
    (ExecuteCalled /\ ~ArgumentsValid) =>
        /\ call.phase = "returned"
        /\ IsEnvelope(call.result)
        /\ call.result.text.error = "ValidationError"
        /\ call.spawns = 0

UnknownToolCalled ==
    InService /\ call.tool \notin {"execute_mathematica", "list_packages"}

\* C8: for a tool name other than execute_mathematica and list_packages the
\* tools/call handler returns, and does not throw, a result with isError true
\* and an envelope whose error is MethodNotFound, and spawns no subprocess.
C8_UnknownToolMethodNotFound ==
    UnknownToolCalled =>
        /\ call.phase = "returned"
        /\ IsEnvelope(call.result)
        /\ call.result.text.error = "MethodNotFound"
        /\ call.spawns = 0
        /\ call.proc = "none"

\* C8 witness: the tool "foo" was called over HTTP and the call returned in a
\* 200 response.
C8_Witness ==
    /\ call.tool = "foo"
    /\ call.phase = "returned"
    /\ httpResp.path = "/mcp"
    /\ httpResp.response.status = 200
    /\ httpResp.response.body.result = call.result

\* the call met a failure: of validation, of the tool lookup, or of the race
CallFailed ==
    \/ ExecuteCalled /\ ~ArgumentsValid
    \/ UnknownToolCalled
    \/ call.settledBy = "timer"
    \/ call.settledBy = "proc" /\ call.proc = "rejected"

\* C9: no tool call ends with an exception leaving the handler, every call
\* that has settled carries a result, and every failing outcome yields
\* isError true with an envelope containing error, message and timestamp.
C9_HandlerNeverThrows ==
    /\ call.phase # "threw"
    /\ call.phase \in {"none", "awaiting", "returned"}
    /\ (InService /\ call.settledBy # "none") => call.phase = "returned"
    /\ CallFailed => /\ call.phase = "returned"
                     /\ IsEnvelope(call.result)
    /\ (call.phase = "returned" /\ ~CallFailed) => ~call.result.isError

\* C9 witness: the subprocess promise rejected with a value that is no Error
\* object (the executor's catch block threw a TypeError reading it) and the
\* call returned an envelope.
C9_Witness ==
    /\ call.settledBy = "proc"
    /\ call.proc = "rejected"
    /\ call.thrown.name = "TypeError"
    /\ call.phase = "returned"
    /\ call.result.isError

RequestedTimeout ==
    IF call.args.timeout.t = "undefined" THEN config.DEFAULT_TIMEOUT
    ELSE call.args.timeout.n

\* C10: for a valid execute_mathematica request the timeout passed to the
\* executor is the smaller of the requested timeout (DEFAULT_TIMEOUT when none
\* is requested) and MAX_TIMEOUT; the clamping warning is logged iff the
\* requested timeout exceeds MAX_TIMEOUT, and the call is executed all the same.
C10_TimeoutClamped ==
    (ExecuteCalled /\ ArgumentsValid) =>
        /\ call.spawns = 1
        /\ call.timeout <= config.MAX_TIMEOUT
        /\ call.timeout <= RequestedTimeout
        /\ call.timeout \in {RequestedTimeout, config.MAX_TIMEOUT}
        /\ call.warned <=> /\ call.args.timeout.t # "undefined"
                           /\ call.args.timeout.n > config.MAX_TIMEOUT

\* C10 witness: a request asked for more than MAX_TIMEOUT; it was warned
\* about, run with MAX_TIMEOUT and returned a success result.
C10_Witness ==
    /\ ExecuteCalled
    /\ call.args.timeout.t = "integer"
    /\ call.args.timeout.n > config.MAX_TIMEOUT
    /\ call.warned
    /\ call.timeout = config.MAX_TIMEOUT
    /\ call.phase = "returned"
    /\ ~call.result.isError

\* the race was settled by the rejection of the subprocess promise, and the
\* rejection is one of rejections
RejectedWith(rejections) ==
    /\ call.settledBy = "proc"
    /\ call.proc = "rejected"
    /\ call.rejection \in rejections

\* C11: a failure to spawn the engine binary is reported as
\* WolframScriptNotFoundError and a computation that ran and failed as
\* MathematicaExecutionError, never the other way round.
C11_FailureClassification ==
    /\ RejectedWith(SpawnFailures) => call.thrown.name = "WolframScriptNotFoundError"
    /\ RejectedWith(ComputationFailures) => call.thrown.name = "MathematicaExecutionError"

\* C12: a call given a working directory that does not exist fails with
\* MathematicaExecutionError, returned as an error result.
C12_MissingCwdExecutionError ==
    (call.cwd = Present(MissingDir) /\ RejectedWith(CwdFailures)) =>
        /\ call.phase = "returned"
        /\ call.result.isError
        /\ call.thrown.name = "MathematicaExecutionError"

(***************************************************************************)
(* Startup failure against request failure.                                *)
(***************************************************************************)
EngineUnavailable == "wolframScriptUnavailable" \in events

\* startServer has rethrown and main has exited
StartupAborted ==
    /\ pc = "failed"
    /\ serverState.initializationError # "null"
    /\ AllChecksFalse
    /\ mcpServer = "null"
    /\ httpServer = "null"
    /\ "transportStarted" \notin events
    /\ call = NoCall
    /\ process.exitCode = "1"

\* a step in which a request fails: the handler returns an error result or
\* throws, or fetch answers 401
RequestFails ==
    \/ /\ call' # call
       /\ call'.phase \in {"returned", "threw"}
       /\ call'.phase = "returned" => call'.result.isError
    \/ /\ httpResp' # httpResp
       /\ httpResp'.response.status = 401

\* C13: when the availability check fails at boot, startServer records the
\* error, leaves the four checks false, starts no transport and the process
\* exits with code 1; a step in which a request fails leaves the process
\* running, the startup position, the servers and the health state as they were
C13_OnlyStartupFailureIsFatal ==
    /\ [](EngineUnavailable => StartupAborted)
    /\ [][RequestFails =>
            /\ process' = process
            /\ process'.exitCode = "none"
            /\ UNCHANGED <<pc, serverState, mcpServer, httpServer>>]_vars

C13_Witness ==
    /\ EngineUnavailable
    /\ serverState.initializationError = "WolframScript not found"
    /\ process.exitCode = "1"

(***************************************************************************)
(* The stages of startup.                                                  *)
(***************************************************************************)
\* the availability check has passed, the Server object exists and a warmup
\* computation has returned true
KernelReady ==
    {"wolframScriptChecked", "serverCreated", "kernelWarmedUp"} \subseteq events

\* C14: a transport is started, and a tools/call request is dispatched to its
\* handler, only after the availability check has passed, the Server object
\* has been created and the warmup computation has succeeded
C14_KernelReadyBeforeRequests ==
    ("transportStarted" \in events \/ httpServer = "live" \/ call.phase # "none")
        => KernelReady

(***************************************************************************)
(* The output formatter.                                                   *)
(***************************************************************************)
Truncated == fmt.op \in {"truncateOutput", "truncateOutputTwice"}

\* C15: truncateOutput returns an output no longer than the limit unchanged;
\* of a longer one it returns the first maxLength characters followed by a
\* notice, so that the result is no longer than maxLength plus the notice and
\* the notice contains the length of the output in decimal
C15_TruncateOutputContract ==
    Truncated =>
        IF Len(fmt.output) <= fmt.maxLength
        THEN fmt.result = fmt.output
        ELSE /\ Len(fmt.result) > fmt.maxLength
             /\ SubSeq(fmt.result, 1, fmt.maxLength) = SubSeq(fmt.output, 1, fmt.maxLength)
             /\ Len(fmt.result) <= fmt.maxLength + Len(TruncationMessage(Len(fmt.output)))
             /\ Includes(Slice(fmt.result, fmt.maxLength), ToDecimal(Len(fmt.output)))

C15_Witness ==
    /\ fmt.op = "truncateOutput"
    /\ fmt.maxLength > 0
    /\ Len(fmt.output) > 9
    /\ Len(fmt.result) > Len(fmt.output)

\* C16: truncateOutput applied to its own result with the same limit returns
\* that result: the second application changes nothing and adds no notice
C16_TruncateOutputIdempotent ==
    fmt.op = "truncateOutputTwice" => fmt.again = fmt.result

\* s holds a match of the colour-sequence pattern
ContainsAnsi(s) == \E i \in 1..Len(s) : AnsiMatchEnd(s, i) > 0

\* C17: formatOutput returns the format it was given, and a content without
\* leading or trailing whitespace and without a colour sequence, the same
\* for the three formats
C17_FormatOutputClean ==
    fmt.op = "formatOutput" =>
        /\ fmt.returned = fmt.format
        /\ fmt.result = Trim(fmt.result)
        /\ ~ContainsAnsi(fmt.result)
        /\ \A f \in OutputFormats : FormatOutput(fmt.output, f).content = fmt.result

(***************************************************************************)
(* Logging in stdio mode.                                                  *)
(***************************************************************************)
\* C18: when the transport is stdio, no log line of the process is written to
\* stdout, at any log level, during startup or afterwards
C18_StdioLogsOffStdout ==
    env.MCP_TRANSPORT = "stdio" => "stdout" \notin logger.written

(***************************************************************************)
(* The health checks during startup.                                       *)
(***************************************************************************)
\* C19: each health check is true only after its driving event: the
\* availability check passed, a warmup computation succeeded, the Server
\* object was created, the transport was started
C19_ChecksFollowEvents ==
    /\ serverState.wolframScriptAvailable => "wolframScriptChecked" \in events
    /\ serverState.wolframKernelInitialized => "kernelWarmedUp" \in events
    /\ serverState.mcpServerConnected => "serverCreated" \in events
    /\ serverState.transportConnected => "transportStarted" \in events

\* a step in which the health state is reset: startServer's first statement,
\* or a stopServer that ran to its end (handleShutdown then exits with code 0)
StateReset == pc = "boot" \/ process'.exitCode = "0"

\* C20: between two resets a health check that is true stays true, whatever
\* the step: a later stage of startup failing, a request, a health query
C20_ChecksMonotonic ==
    [][(\E c \in CheckNames : serverState[c] /\ ~serverState'[c]) => StateReset]_vars

C20_Witness ==
    /\ serverState.initializationError = "Transport failed"
    /\ serverState.wolframScriptAvailable
    /\ serverState.wolframKernelInitialized
    /\ serverState.mcpServerConnected
    /\ process.exitCode = "1"

StartServerWrites == serverState' # serverState /\ pc' # pc

\* a step in which stopServer writes the health state: its reset
StopServerWrites == serverState' # serverState /\ "stopServerReset" \in events'

\* C22: the health state is written by startServer and stopServer only, and
\* under every ordering of startup steps and shutdown triggers no write of
\* startServer follows the reset of stopServer, so that no stopServer write
\* lies between two writes of startServer
C22_WritersDoNotInterleave ==
    /\ [][serverState' # serverState => (StartServerWrites \/ StopServerWrites)]_vars
    /\ [][StopServerWrites => ~StartServerWrites]_vars
    /\ [][("stopServerReset" \in events) => serverState' = serverState]_vars

\* stopServer, triggered while startServer was suspended at the await of the
\* transport start, has reset the state after startServer's last write
C22_Witness ==
    /\ "stopServerReset" \in events
    /\ "transportStarted" \in events
    /\ pc = "running"
    /\ call = NoCall
    /\ httpServer = "live"

(***************************************************************************)
(* Requests and the health state.                                          *)
(***************************************************************************)
\* a step of a request: a tools/call dispatched, settled or ended, or an HTTP
\* response sent, in a process that the step does not end
RequestStep == (call' # call \/ httpResp' # httpResp) /\ process' = process

\* C23: handling a request leaves the health state as it was: the four
\* checks, initializationError and startedAt are the same after every tool
\* call, every /mcp authentication outcome and every /health or /info query
C23_RequestsLeaveHealthState ==
    [][RequestStep => serverState' = serverState]_vars

\* an execute_mathematica call has ended with the engine not found and the
\* health state still reports every check true
C23_Witness ==
    /\ call.phase = "returned"
    /\ call.thrown.name = "WolframScriptNotFoundError"
    /\ AllChecksTrue
    /\ serverState.startedAt = "date"

(***************************************************************************)
(* Subprocesses per call.                                                  *)
(***************************************************************************)
\* C24: an execute_mathematica call runs executeWolframScript at most once and
\* executeWolframScript starts exactly one subprocess: whatever the outcome
\* (timeout, non-zero exit, spawn failure), nothing is spawned a second time
C24_OneSpawnPerCall ==
    /\ call.spawns <= 1
    /\ call.proc # "none" <=> call.spawns = 1
    /\ (ExecuteCalled /\ ArgumentsValid) => call.spawns = 1
    /\ ~ExecuteCalled => call.spawns = 0

\* a call that timed out has returned its error with one subprocess started
C24_Witness ==
    /\ ExecuteCalled
    /\ call.phase = "returned"
    /\ call.result.isError
    /\ call.settledBy = "timer"
    /\ call.spawns = 1

(***************************************************************************)
(* stderr of a subprocess that exits with code zero.                       *)
(***************************************************************************)
\* the race was settled by a subprocess that exited with code zero
ExitedZeroFirst == call.settledBy = "proc" /\ call.proc = "resolved"

HasBenignWarning(stderr) == \E warning \in BenignWarnings : Includes(stderr, warning)

\* C25: when the subprocess exits with code zero before the timer fires the
\* call returns a successful result whatever stderr holds; a stderr with a
\* benign substring is logged at debug level, any other non-empty stderr at
\* warning level
C25_StderrNeverFails ==
    ExitedZeroFirst =>
        /\ call.phase = "returned"
        /\ ~call.result.isError
        /\ HasBenignWarning(call.stderr) => call.stderrLog = "debug"
        /\ (Len(call.stderr) > 0 /\ ~HasBenignWarning(call.stderr))
              => call.stderrLog = "warn"

\* C25 as amended: the same, with the warning for any other stderr that is
\* not blank, and no line for a blank one
C25_StderrNeverFailsAmended ==
    ExitedZeroFirst =>
        /\ call.phase = "returned"
        /\ ~call.result.isError
        /\ HasBenignWarning(call.stderr) => call.stderrLog = "debug"
        /\ (Len(Trim(call.stderr)) > 0 /\ ~HasBenignWarning(call.stderr))
              => call.stderrLog = "warn"
        /\ Len(Trim(call.stderr)) = 0 => call.stderrLog = "none"

\* a call has returned its result although the kernel wrote a message to
\* stderr, and the message was logged as a warning
C25_Witness ==
    /\ ExitedZeroFirst
    /\ call.phase = "returned"
    /\ ~call.result.isError
    /\ Len(call.stderr) > 1
    /\ ~HasBenignWarning(call.stderr)
    /\ call.stderrLog = "warn"

(***************************************************************************)
(* The engine invocation.                                                  *)
(***************************************************************************)
\* C26: the engine is invoked with the argument vector [enginePath,
\* '-timeout', timeout, '-code', wrapped], wrapped being the code for text,
\* TeXForm[code] for latex and InputForm[code] for mathematica: the code is
\* one argument, whatever characters it holds
C26_ArgumentVector ==
    call.proc # "none" =>
        LET code == call.args.code.s
            wrapped == IF call.format = FormatText THEN code
                       ELSE IF call.format = FormatLatex
                       THEN <<"T", "e", "X", "F", "o", "r", "m", "[">> \o code \o <<"]">>
                       ELSE <<"I", "n", "p", "u", "t", "F", "o", "r", "m", "[">> \o code \o <<"]">>
        IN  call.argv = <<WolframScriptPath, <<"-", "t", "i", "m", "e", "o", "u", "t">>, ToDecimal(call.timeout),
                          <<"-", "c", "o", "d", "e">>, wrapped>>

\* a latex call whose code holds a blank and a quote runs with five arguments
C26_Witness ==
    /\ call.proc = "running"
    /\ call.format = FormatLatex
    /\ Includes(call.args.code.s, <<" ">>)
    /\ Includes(call.args.code.s, <<"\"">>)
    /\ Len(call.argv) = 5

(***************************************************************************)
(* C27: whenever validateBearerToken reaches timingSafeEqual, the          *)
(* comparison loop runs exactly as many times as the expected key has      *)
(* characters, whatever the presented token is, and a token whose length   *)
(* differs from the key's is rejected.                                     *)
(***************************************************************************)
PresentedToken == ExtractBearerToken(auth.header)

C27_ComparisonLengthOfKey ==
    (auth.applied /\ auth.compared) =>
        /\ auth.iterations = Len(auth.key.value)
        /\ (Len(PresentedToken.value) # Len(auth.key.value) => ~auth.ok)

C27_Witness ==
    /\ auth.applied
    /\ auth.compared
    /\ Len(auth.key.value) = 2
    /\ Len(PresentedToken.value) = 1
    /\ auth.iterations = 2
    /\ ~auth.ok

(***************************************************************************)
(* C28: the health status computed from the health structure is "error"    *)
(* only when an initialization error has been recorded.                    *)
(***************************************************************************)
C28_ErrorOnlyWithRecordedError ==
    GetServerHealthStatus(serverState).status = "error"
        => serverState.initializationError # "null"

(***************************************************************************)
(* C29: in HTTP mode transportConnected is true only while the HTTP        *)
(* listener is live, and mcpServerConnected is true only while the MCP     *)
(* server object is held.                                                  *)
(***************************************************************************)
C29_ChecksFollowResources ==
    (config # NoConfig /\ config.MCP_TRANSPORT = "http") =>
        /\ serverState.transportConnected => httpServer = "live"
        /\ serverState.mcpServerConnected => mcpServer = "live"

(***************************************************************************)
(* C30: a call of executeWolframScript settles once, by whichever of the   *)
(* subprocess and the timer settles first; when the other one settles      *)
(* later, the result, the thrown error and the winner stay as they are,    *)
(* and no rejection ever reaches the unhandledRejection handler.           *)
(***************************************************************************)
LoserSettles ==
    /\ call.settledBy # "none"
    /\ call'.settledBy # "none"
    /\ (call'.proc # call.proc \/ call'.timer # call.timer)

C30_RaceSettlesOnce ==
    /\ [][LoserSettles => /\ call'.settledBy = call.settledBy
                          /\ call'.result = call.result
                          /\ call'.thrown = call.thrown
                          /\ process' = process]_vars
    /\ [][/\ "unhandledRejection" \notin events'
          /\ (call'.settledBy = "proc" => call'.proc \in {"resolved", "rejected"})
          /\ (call'.settledBy = "timer" => call'.timer = "fired")]_vars

\* the subprocess completed first and the timer, never cancelled, fired later
C30_Witness ==
    /\ call.settledBy = "proc"
    /\ call.proc = "resolved"
    /\ call.timer = "fired"
    /\ call.result # NoResult
    /\ process = ProcessRunning
====
